---- MODULE Spec2Model ----
(***************************************************************************)
(* tpx: a TCP port forwarder (src/main.rs).                                *)
(*                                                                         *)
(* The program is one tokio task: bind, then incoming().map(fwd-session)   *)
(* .buffer_unordered(usize::MAX).for_each(..).  Every accepted connection  *)
(* becomes a session future  connect.and_then(sockopt; split; select of    *)
(* two io::copy).then(log).  The model has one action per step of that     *)
(* task (bind, accept, accept error, poll of one session) and one action   *)
(* per thing the peers and the kernel can do to a socket.                  *)
(***************************************************************************)
EXTENDS Integers, Sequences, FiniteSets, TLC

\* ----------------------------------------------------------------- bounds
\* Client connections that may arrive in one behaviour.
MaxConns == 2
\* Bytes all peers together may send in one behaviour.
MaxBytes == 2
\* Faults the environment may inject in one behaviour (a refused connect, a
\* reset, a failing setsockopt, a failing peer_addr).
MaxFaults == 1
\* Bytes one io::copy read returns at most (tokio's copy buffer, scaled down).
BufSize == 2
\* Bytes a socket's send buffer takes before a write returns NotReady (scaled).
SockBuf == 1

Conns == 1..MaxConns

\* The i-th byte the client of connection c sends, and the i-th byte the
\* destination sends on the outbound connection of session c: all distinct.
ClientByte(c, i) == c * 10 + i
DestByte(c, i) == 100 + c * 10 + i

Min(a, b) == IF a < b THEN a ELSE b

VARIABLES
    lim,        \* what the environment does at most in this behaviour:
                \*   [conns, bytes, faults]
    cfg,        \* Opt: [keepalive, nodelay], parsed once in main
    listener,   \* "init" | "listening" | "failed" (bind error) |
                \*   "stopped" (the listener future ended after a bind)
    proc,       \* "running" | "exited"
    exitStatus, \* the process's exit status once proc = "exited"
    syslog,     \* process-level log events (Starting, Shutdown ...)
    faults,     \* faults the environment has injected so far
    bytes,      \* bytes the peers have sent so far
    sess,       \* per connection: "none" | "backlog" | "connecting" |
                \*   "copying" | "done" | "dropped"
    addr,       \* per connection: the peer address string used in its log lines
    held,       \* per connection: the socket handles the session future owns
    opts,       \* per connection: the socket options requested on src and dst
    dconn,      \* per connection: state of the outbound connect
    up,         \* per connection: io::copy(srd, dwr)
    down,       \* per connection: io::copy(drd, swr)
    result,     \* per connection: the session future's result
    log,        \* per connection: the log events emitted for it, in order
    src,        \* per connection: the inbound socket as the kernel holds it
    dst,        \* per connection: the outbound socket as the kernel holds it
    csent,      \* per connection: bytes its client has sent
    dsent       \* per connection: bytes the destination has sent on it

vars == <<lim, cfg, listener, proc, exitStatus, syslog, faults, bytes, sess, addr,
          held, opts, dconn, up, down, result, log, src, dst, csent, dsent>>

procVars == <<listener, proc, exitStatus, syslog>>
sessVars == <<sess, addr, held, opts, dconn, up, down, result, log>>
netVars  == <<src, dst, csent, dsent>>

\* ------------------------------------------------------------ configuration
\* Opt (the -k default is 30).
DefaultKeepalive == 30
Configs == [keepalive : {0, DefaultKeepalive}, nodelay : BOOLEAN]

\* A keepalive that is always enabled, with a zero interval for 0.
keepaliveAlways(secs) == <<"Some", secs>>

\* fn keepalive(secs) -> Option<Duration>
keepalive(secs) == IF secs = 0 THEN <<"None">> ELSE <<"Some", secs>>

\* What one sockopt() call requests of a socket.
SockoptRequest(c) == [keepalive |-> keepalive(c.keepalive), nodelay |-> c.nodelay]

\* The error! lines of one sockopt() call in which the setsockopt calls in
\* `failing` fail: keepalive is set first, nodelay second, neither aborts.
SockoptErrors(failing) ==
    (IF "keepalive" \in failing THEN << <<"Error", "keepalive">> >> ELSE << >>)
    \o (IF "nodelay" \in failing THEN << <<"Error", "nodelay">> >> ELSE << >>)

\* A sockopt() that returns at the first failure with that error.
sockoptAbort(cf, failing) ==
    [opts |-> IF "keepalive" \in failing
              THEN [SockoptRequest(cf) EXCEPT !.nodelay = FALSE]
              ELSE SockoptRequest(cf),
     log  |-> IF "keepalive" \in failing
              THEN << <<"Error", "keepalive">> >> ELSE SockoptErrors(failing),
     ret  |-> IF failing = {} THEN "Ok" ELSE "Err"]

\* fn sockopt(sock, cfg) with the setsockopt calls in `failing` failing: both
\* options are requested, each failure goes to error! through unwrap_or_else,
\* and the function returns () either way.
sockopt(cf, failing) ==
    [opts |-> SockoptRequest(cf), log |-> SockoptErrors(failing), ret |-> "Ok"]

NoOpts == [keepalive |-> <<"Unset">>, nodelay |-> FALSE]

\* fn peer(src): the peer address, or "<unknown>" when peer_addr() fails.
PeerName(c) == <<"addr", c>>
Unknown == <<"<unknown>">>

\* A peer() that yields an empty string when peer_addr() fails.
peerEmpty(c, ok) == IF ok THEN PeerName(c) ELSE <<"">>

\* fn peer(src) with peer_addr() succeeding (ok) or failing.
peer(c, ok) == IF ok THEN PeerName(c) ELSE Unknown

\* ------------------------------------------------------------------ sockets
\* A socket as the proxy's kernel holds it: rq the bytes received and not yet
\* read, fin the peer's FIN received, err a pending socket error (a reset),
\* room the room left in the send buffer, wr every byte written to the peer.
FreshSock == [rq |-> << >>, fin |-> FALSE, err |-> FALSE, room |-> SockBuf, wr |-> << >>]

\* ------------------------------------------------------------------ io::copy
IdleCopy == [st |-> "none", buf |-> << >>, rd |-> FALSE]
NewCopy  == [st |-> "run",  buf |-> << >>, rd |-> FALSE]

\* The state of one Copy::poll: the copy cp, the socket rs it reads, the socket
\* ws it writes, and out: "Continue" inside the loop, else what poll returns.
CopyState(cp, rs, ws) == [cp |-> cp, rs |-> rs, ws |-> ws, out |-> "Continue"]

\* End-of-stream reported as soon as the FIN has arrived, before the bytes
\* received ahead of it.
CopyReadEofFirst(x) ==
    IF x.rs.err THEN [x EXCEPT !.out = "Err"]
    ELSE IF x.rs.fin THEN [x EXCEPT !.cp.rd = TRUE]
    ELSE IF x.rs.rq # << >> THEN
        [x EXCEPT !.cp.buf = x.rs.rq, !.rs.rq = << >>]
    ELSE [x EXCEPT !.out = "NotReady"]

\* reader.poll_read(&mut buf), taken when the buffer is empty and EOF not seen:
\* a pending socket error fails the read, bytes received are returned (at most
\* BufSize), a FIN with nothing left reads 0 (read_done), otherwise NotReady.
CopyRead(x) ==
    IF x.rs.err THEN [x EXCEPT !.out = "Err"]
    ELSE IF x.rs.rq # << >> THEN
        LET n == Min(Len(x.rs.rq), BufSize) IN
        [x EXCEPT !.cp.buf = SubSeq(x.rs.rq, 1, n),
                  !.rs.rq  = SubSeq(x.rs.rq, n + 1, Len(x.rs.rq))]
    ELSE IF x.rs.fin THEN [x EXCEPT !.cp.rd = TRUE]
    ELSE [x EXCEPT !.out = "NotReady"]

\* The bytes one poll_write of `buf` hands to a socket with `room` bytes of room.
Written(buf, room) == SubSeq(buf, 1, Min(room, Len(buf)))

\* pos advanced by one byte too few.
AdvanceShort(buf, i) == SubSeq(buf, i, Len(buf))

\* pos set to cap after any write: the rest of a partial write is dropped.
AdvanceAll(buf, i) == << >>

\* The buffer left after a poll_write that took i bytes (pos += i).
Advance(buf, i) == SubSeq(buf, i + 1, Len(buf))

\* while pos < cap { writer.poll_write(&buf[pos..cap]) }: a pending socket
\* error fails the write, a full send buffer is NotReady, else the kernel takes
\* what fits and pos advances by that much.
RECURSIVE CopyDrain(_)
CopyDrain(x) ==
    IF x.cp.buf = << >> THEN x
    ELSE IF x.ws.err THEN [x EXCEPT !.out = "Err"]
    ELSE IF x.ws.room = 0 THEN [x EXCEPT !.out = "NotReady"]
    ELSE LET w == Written(x.cp.buf, x.ws.room) IN
         CopyDrain([x EXCEPT !.cp.buf  = Advance(x.cp.buf, Len(w)),
                             !.ws.wr   = x.ws.wr \o w,
                             !.ws.room = x.ws.room - Len(w)])

\* The loop of Copy::poll: read when the buffer is empty, write the buffer out,
\* finish (flush, return Ok) when the buffer is empty and EOF was read.
RECURSIVE CopyLoop(_)
CopyLoop(x) ==
    LET a == IF x.cp.buf = << >> /\ ~x.cp.rd THEN CopyRead(x) ELSE x IN
    IF a.out # "Continue" THEN a
    ELSE LET b == CopyDrain(a) IN
         IF b.out # "Continue" THEN b
         ELSE IF b.cp.buf = << >> /\ b.cp.rd THEN [b EXCEPT !.out = "Ok"]
         ELSE CopyLoop(b)

\* One poll of io::copy(reader of rs, writer of ws).
CopyPoll(cp, rs, ws) == CopyLoop(CopyState(cp, rs, ws))

\* ------------------------------------------------------------ the session
\* The copy's state once its poll returned `out`.
Polled(cp, out) ==
    [cp EXCEPT !.st = CASE out = "Ok" -> "ok" [] out = "Err" -> "err" [] OTHER -> cp.st]

\* A join in place of the race: both copies are driven to their end.
JoinPoll(u, d, s, t) ==
    LET a  == IF u.st = "run" THEN CopyPoll(u, s, t)
              ELSE [cp |-> u, rs |-> s, ws |-> t, out |-> "Done"]
        ua == Polled(a.cp, a.out)
        b  == IF d.st = "run" THEN CopyPoll(d, a.ws, a.rs)
              ELSE [cp |-> d, rs |-> a.ws, ws |-> a.rs, out |-> "Done"]
        db == Polled(b.cp, b.out)
        both == ua.st # "run" /\ db.st # "run"
    IN  [up |-> ua, down |-> db, src |-> b.ws, dst |-> b.rs,
         out |-> IF ~both THEN "NotReady"
                 ELSE IF ua.st = "ok" /\ db.st = "ok" THEN "Ok" ELSE "Err",
         winner |-> IF both THEN "up" ELSE "none"]

\* down.select(up): downstream polled first.
SelectPollDownFirst(u, d, s, t) ==
    LET b == CopyPoll(d, t, s) IN
    IF b.out # "NotReady"
    THEN [up |-> u, down |-> Polled(b.cp, b.out), src |-> b.ws, dst |-> b.rs,
          out |-> b.out, winner |-> "down"]
    ELSE LET a == CopyPoll(u, b.ws, b.rs) IN
         [up |-> Polled(a.cp, a.out), down |-> b.cp, src |-> a.rs, dst |-> a.ws,
          out |-> a.out, winner |-> IF a.out # "NotReady" THEN "up" ELSE "none"]

\* up.select(down): one poll.  up = io::copy(srd, dwr) is polled first; down =
\* io::copy(drd, swr) is polled only when up is NotReady.  The first one found
\* finished (Ok or Err) is the winner and ends the select.
SelectPoll(u, d, s, t) ==
    LET a == CopyPoll(u, s, t) IN
    IF a.out # "NotReady"
    THEN [up |-> Polled(a.cp, a.out), down |-> d, src |-> a.rs, dst |-> a.ws,
          out |-> a.out, winner |-> "up"]
    ELSE LET b == CopyPoll(d, a.ws, a.rs) IN
         [up |-> a.cp, down |-> Polled(b.cp, b.out), src |-> b.ws, dst |-> b.rs,
          out |-> b.out, winner |-> IF b.out # "NotReady" THEN "down" ELSE "none"]

\* The winner's error swallowed.
FwdResultOkOnly(sel) == <<"Ok">>

\* .map(|_| ()).map_err(|(e, _)| e): the session's result is the winner's
\* outcome; the error carries which direction it came from.
FwdResult(sel) ==
    IF sel.out = "Ok" THEN <<"Ok">> ELSE <<"Err", sel.winner>>

\* What is left of a copy when the future holding it is dropped unfinished.
Abandon(cp) == IF cp.st = "run" THEN [cp EXCEPT !.st = "abandoned"] ELSE cp

\* The loser's halves kept alive (its future detached instead of dropped).
AfterSelectLeak(h, winner) ==
    IF winner = "up" THEN {"drd", "swr"} ELSE {"srd", "dwr"}

\* The handles still owned once select has resolved: the winner is dropped at
\* the end of Select::poll, the loser (inside SelectNext) by map / map_err.
AfterSelect(h, winner) == {}

\* The inbound stream kept alive after a failed connect.
AfterConnectErrorLeak(h) == h \ {"dst"}

\* The handles still owned once the connect has failed: and_then drops its
\* closure, and with it the inbound stream the closure had captured.
AfterConnectError(h) == {}

\* The log line of the .then closure.
ThenLog(res, a) ==
    IF res = <<"Ok">> THEN <<"Disconnected", a>>
    ELSE <<"DisconnectedWithError", res[2], a>>

\* The session's error handed on to the listener future.
ThenResultPropagate(res) == IF res = <<"Ok">> THEN "Ok" ELSE "Err"

\* What the .then closure returns to buffer_unordered: Ok in both arms.
ThenResult(res) == "Ok"

\* One session at a time (buffer_unordered(1)).
HasRoomOne(n) == n < 1

\* queue.len() < max of buffer_unordered(usize::max_value()), for n sessions in
\* the queue: no count a process can reach is refused.
HasRoom(n) == TRUE

\* The process's exit status when main returns after tokio::run: main returns
\* (), whatever the future's outcome was.
MainExit(outcome) == 0

Active(s) == {c \in Conns : s[c] \in {"connecting", "copying"}}

SrcOpen(c) == held[c] \cap {"src", "srd", "swr"} # {}
DstOpen(c) == held[c] \cap {"dst", "drd", "dwr"} # {}

\* The state when main starts, in an environment that opens at most nc
\* connections, sends at most nb bytes and injects at most nf faults.
Setup(nc, nb, nf) ==
    /\ lim = [conns |-> nc, bytes |-> nb, faults |-> nf]
    /\ cfg \in Configs
    /\ listener = "init"
    /\ proc = "running"
    /\ exitStatus = 0
    /\ syslog = << <<"Starting">> >>
    /\ faults = 0
    /\ bytes = 0
    /\ sess = [c \in Conns |-> "none"]
    /\ addr = [c \in Conns |-> << >>]
    /\ held = [c \in Conns |-> {}]
    /\ opts = [c \in Conns |-> [src |-> NoOpts, dst |-> NoOpts]]
    /\ dconn = [c \in Conns |-> "none"]
    /\ up = [c \in Conns |-> IdleCopy]
    /\ down = [c \in Conns |-> IdleCopy]
    /\ result = [c \in Conns |-> <<"Pending">>]
    /\ log = [c \in Conns |-> << >>]
    /\ src = [c \in Conns |-> FreshSock]
    /\ dst = [c \in Conns |-> FreshSock]
    /\ csent = [c \in Conns |-> 0]
    /\ dsent = [c \in Conns |-> 0]

\* Any number of clients, which connect, close and reset but send no payload.
Init == Setup(MaxConns, 0, MaxFaults)

\* One client, with payload in both directions.
InitData == Setup(1, MaxBytes, MaxFaults)

\* Two clients at once, with payload in both directions and no faults.
InitPair == Setup(2, MaxBytes, 0)

\* ------------------------------------------------------------ the listener
\* TcpListener::bind(&cfg.source) succeeds.
BindOk ==
    /\ proc = "running" /\ listener = "init"
    /\ listener' = "listening"
    /\ UNCHANGED <<lim, cfg, proc, exitStatus, syslog, faults, bytes>>
    /\ UNCHANGED sessVars /\ UNCHANGED netVars

\* Sessions spawned as tasks of their own, which outlive the listener future.
ShutdownDetached(sess1, held1, up1, down1) ==
    /\ listener' = IF listener = "init" THEN "failed" ELSE "stopped"
    /\ syslog' = Append(syslog, <<"ShutdownWithError">>)
    /\ proc' = "exited"
    /\ exitStatus' = MainExit("Err")
    /\ sess' = sess1 /\ held' = held1 /\ up' = up1 /\ down' = down1

\* The end of the listener future with an error: every session future still in
\* the queue is dropped with it, map_err logs, tokio::run and main return.
Shutdown(sess1, held1, up1, down1) ==
    /\ listener' = IF listener = "init" THEN "failed" ELSE "stopped"
    /\ syslog' = Append(syslog, <<"ShutdownWithError">>)
    /\ proc' = "exited"
    /\ exitStatus' = MainExit("Err")
    /\ sess' = [c \in Conns |-> IF c \in Active(sess1) THEN "dropped" ELSE sess1[c]]
    /\ held' = [c \in Conns |-> IF c \in Active(sess1) THEN {} ELSE held1[c]]
    /\ up' = [c \in Conns |-> Abandon(up1[c])]
    /\ down' = [c \in Conns |-> Abandon(down1[c])]

\* TcpListener::bind fails: the error runs through map_err to the log.
BindFail ==
    /\ proc = "running" /\ listener = "init"
    /\ Shutdown(sess, held, up, down)
    /\ UNCHANGED <<lim, cfg, faults, bytes, addr, opts, dconn, result, log>>
    /\ UNCHANGED netVars

\* incoming() yields an error: buffer_unordered's `self.stream.poll()?` and
\* for_each pass it on, which ends the listener future.
AcceptError ==
    /\ proc = "running" /\ listener = "listening"
    /\ Shutdown(sess, held, up, down)
    /\ UNCHANGED <<lim, cfg, faults, bytes, addr, opts, dconn, result, log>>
    /\ UNCHANGED netVars

\* incoming() yields connection c, the oldest in the accept queue: the map closure runs peer(), logs
\* Connected, and calls fwd(), which applies the socket options to the inbound
\* stream and starts the outbound connect; the future goes into the queue.
Accept(c) ==
    /\ proc = "running" /\ listener = "listening"
    /\ sess[c] = "backlog"
    /\ \A b \in Conns : b < c => sess[b] # "backlog"
    /\ HasRoom(Cardinality(Active(sess)))
    /\ \E peerOk \in BOOLEAN, failing \in SUBSET {"keepalive", "nodelay"} :
        LET n == Cardinality(failing) + (IF peerOk THEN 0 ELSE 1) IN
        /\ faults + n <= lim.faults
        /\ faults' = faults + n
        /\ addr' = [addr EXCEPT ![c] = peer(c, peerOk)]
        /\ log' = [log EXCEPT ![c] =
                      << <<"Connected", peer(c, peerOk)>> >> \o sockopt(cfg, failing).log]
        /\ opts' = [opts EXCEPT ![c].src = sockopt(cfg, failing).opts]
    /\ sess' = [sess EXCEPT ![c] = "connecting"]
    /\ held' = [held EXCEPT ![c] = {"src", "dst"}]
    /\ dconn' = [dconn EXCEPT ![c] = "syn"]
    /\ UNCHANGED <<lim, cfg, bytes, up, down, result>>
    /\ UNCHANGED procVars /\ UNCHANGED netVars

\* The and_then closure run while the connect is still in flight.
ConnectReadyEarly(c) == dconn[c] \in {"syn", "estab"}

\* The connect future of session c has resolved with a stream: only then does
\* and_then run its closure.
ConnectReady(c) == dconn[c] = "estab"

\* One outbound connection for all sessions.
OutboundShared(c) == 1

\* The outbound connection of session c: every fwd() call makes its own
\* TcpStream::connect, whose stream only its own and_then closure receives.
Outbound(c) == c

\* The session future of c has resolved with `res`, owning the handles h: the
\* .then closure logs, and what it returns goes to buffer_unordered and
\* for_each, where an Err would end the listener future.
Complete(c, res, h, up1, down1, lg) ==
    /\ result' = [result EXCEPT ![c] = res]
    /\ log' = [log EXCEPT ![c] = Append(lg, ThenLog(res, addr[c]))]
    /\ LET sess1 == [sess EXCEPT ![c] = "done"]
           held1 == [held EXCEPT ![c] = h]
       IN  IF ThenResult(res) = "Ok"
           THEN /\ sess' = sess1 /\ held' = held1 /\ up' = up1 /\ down' = down1
                /\ UNCHANGED procVars
           ELSE Shutdown(sess1, held1, up1, down1)

\* The outcome of one poll of up.select(down) in session c, which owns the
\* four halves h and has logged lg.
Resolve(c, sel, h, lg) ==
    /\ src' = [src EXCEPT ![c] = sel.src]
    /\ dst' = [dst EXCEPT ![Outbound(c)] = sel.dst]
    /\ IF sel.winner = "none"
       THEN /\ sess' = [sess EXCEPT ![c] = "copying"]
            /\ held' = [held EXCEPT ![c] = h]
            /\ up' = [up EXCEPT ![c] = sel.up]
            /\ down' = [down EXCEPT ![c] = sel.down]
            /\ log' = [log EXCEPT ![c] = lg]
            /\ UNCHANGED result /\ UNCHANGED procVars
       ELSE Complete(c, FwdResult(sel), AfterSelect(h, sel.winner),
                     [up EXCEPT ![c] = Abandon(sel.up)],
                     [down EXCEPT ![c] = Abandon(sel.down)], lg)

\* One poll of the session future of c by the queue.  While the connect is in
\* flight the poll is NotReady and changes nothing (no step here).
PollSession(c) ==
    /\ proc = "running" /\ listener = "listening"
    /\ \/ \* the connect failed: and_then passes the error on
          /\ sess[c] = "connecting" /\ dconn[c] = "refused"
          /\ Complete(c, <<"Err", "connect">>, AfterConnectError(held[c]), up, down, log[c])
          /\ UNCHANGED <<faults, opts, src, dst>>
       \/ \* the connect succeeded: the and_then closure runs sockopt(&dst),
          \* splits both streams, builds the two copies, and select is polled
          /\ sess[c] = "connecting" /\ ConnectReady(c)
          /\ \E failing \in SUBSET {"keepalive", "nodelay"} :
              /\ faults + Cardinality(failing) <= lim.faults
              /\ faults' = faults + Cardinality(failing)
              /\ opts' = [opts EXCEPT ![c].dst = sockopt(cfg, failing).opts]
              /\ IF sockopt(cfg, failing).ret = "Ok"
                 THEN Resolve(c, SelectPoll(NewCopy, NewCopy, src[c], dst[Outbound(c)]),
                              {"srd", "swr", "drd", "dwr"},
                              log[c] \o sockopt(cfg, failing).log)
                 ELSE /\ Complete(c, <<"Err", "sockopt">>, {}, up, down,
                                  log[c] \o sockopt(cfg, failing).log)
                      /\ UNCHANGED <<src, dst>>
       \/ \* select is polled again
          /\ sess[c] = "copying"
          /\ Resolve(c, SelectPoll(up[c], down[c], src[c], dst[Outbound(c)]),
                     held[c], log[c])
          /\ UNCHANGED <<faults, opts>>
    /\ UNCHANGED <<lim, cfg, bytes, addr, dconn, csent, dsent>>

\* ----------------------------------------------------------- the environment
Live(c) == sess[c] \in {"backlog", "connecting", "copying"}
Linked(c) == sess[c] \in {"connecting", "copying"} /\ dconn[c] = "estab"

\* A client connects to the source address; connections are numbered in the
\* order they arrive.
ClientConnect(c) ==
    /\ listener = "listening" /\ sess[c] = "none" /\ c <= lim.conns
    /\ \A b \in Conns : b < c => sess[b] # "none"
    /\ sess' = [sess EXCEPT ![c] = "backlog"]
    /\ UNCHANGED <<lim, cfg, faults, bytes, addr, held, opts, dconn, up, down, result, log>>
    /\ UNCHANGED procVars /\ UNCHANGED netVars

ClientSend(c) ==
    /\ Live(c) /\ ~src[c].fin /\ ~src[c].err /\ bytes < lim.bytes
    /\ src' = [src EXCEPT ![c].rq = Append(@, ClientByte(c, csent[c] + 1))]
    /\ csent' = [csent EXCEPT ![c] = @ + 1]
    /\ bytes' = bytes + 1
    /\ UNCHANGED <<lim, cfg, faults, dst, dsent>>
    /\ UNCHANGED procVars /\ UNCHANGED sessVars

\* The client closes its connection: the proxy's inbound socket receives FIN.
ClientClose(c) ==
    /\ Live(c) /\ ~src[c].fin /\ ~src[c].err
    /\ src' = [src EXCEPT ![c].fin = TRUE]
    /\ UNCHANGED <<lim, cfg, faults, bytes, dst, csent, dsent>>
    /\ UNCHANGED procVars /\ UNCHANGED sessVars

\* The inbound connection is reset.
ClientReset(c) ==
    /\ Live(c) /\ ~src[c].err /\ faults < lim.faults
    /\ src' = [src EXCEPT ![c].err = TRUE]
    /\ faults' = faults + 1
    /\ UNCHANGED <<lim, cfg, bytes, dst, csent, dsent>>
    /\ UNCHANGED procVars /\ UNCHANGED sessVars

\* The client reads what the proxy wrote: the send buffer has room again.
ClientRead(c) ==
    /\ Live(c) /\ src[c].room < SockBuf
    /\ src' = [src EXCEPT ![c].room = SockBuf]
    /\ UNCHANGED <<lim, cfg, faults, bytes, dst, csent, dsent>>
    /\ UNCHANGED procVars /\ UNCHANGED sessVars

DestEstablish(c) ==
    /\ sess[c] = "connecting" /\ dconn[c] = "syn"
    /\ dconn' = [dconn EXCEPT ![c] = "estab"]
    /\ UNCHANGED <<lim, cfg, faults, bytes, sess, addr, held, opts, up, down, result, log>>
    /\ UNCHANGED procVars /\ UNCHANGED netVars

DestRefuse(c) ==
    /\ sess[c] = "connecting" /\ dconn[c] = "syn" /\ faults < lim.faults
    /\ dconn' = [dconn EXCEPT ![c] = "refused"]
    /\ faults' = faults + 1
    /\ UNCHANGED <<lim, cfg, bytes, sess, addr, held, opts, up, down, result, log>>
    /\ UNCHANGED procVars /\ UNCHANGED netVars

DestSend(c) ==
    /\ Linked(c) /\ ~dst[c].fin /\ ~dst[c].err /\ bytes < lim.bytes
    /\ dst' = [dst EXCEPT ![c].rq = Append(@, DestByte(c, dsent[c] + 1))]
    /\ dsent' = [dsent EXCEPT ![c] = @ + 1]
    /\ bytes' = bytes + 1
    /\ UNCHANGED <<lim, cfg, faults, src, csent>>
    /\ UNCHANGED procVars /\ UNCHANGED sessVars

DestClose(c) ==
    /\ Linked(c) /\ ~dst[c].fin /\ ~dst[c].err
    /\ dst' = [dst EXCEPT ![c].fin = TRUE]
    /\ UNCHANGED <<lim, cfg, faults, bytes, src, csent, dsent>>
    /\ UNCHANGED procVars /\ UNCHANGED sessVars

DestReset(c) ==
    /\ Linked(c) /\ ~dst[c].err /\ faults < lim.faults
    /\ dst' = [dst EXCEPT ![c].err = TRUE]
    /\ faults' = faults + 1
    /\ UNCHANGED <<lim, cfg, bytes, src, csent, dsent>>
    /\ UNCHANGED procVars /\ UNCHANGED sessVars

DestRead(c) ==
    /\ Linked(c) /\ dst[c].room < SockBuf
    /\ dst' = [dst EXCEPT ![c].room = SockBuf]
    /\ UNCHANGED <<lim, cfg, faults, bytes, src, csent, dsent>>
    /\ UNCHANGED procVars /\ UNCHANGED sessVars

\* The program's steps, and what peers do to connections short of payload.
Next ==
    \/ BindOk
    \/ BindFail
    \/ AcceptError
    \/ \E c \in Conns :
        \/ Accept(c)
        \/ PollSession(c)
        \/ ClientConnect(c)
        \/ ClientClose(c)
        \/ ClientReset(c)
        \/ DestEstablish(c)
        \/ DestRefuse(c)
        \/ DestClose(c)
        \/ DestReset(c)

\* The peers send payload and read what was forwarded to them.
Payload ==
    \E c \in Conns :
        \/ ClientSend(c)
        \/ ClientRead(c)
        \/ DestSend(c)
        \/ DestRead(c)

NextData == Next \/ Payload

\* Sessions side by side, without payload.
Spec == Init /\ [][Next]_vars

\* One session with payload.
SpecData == InitData /\ [][NextData]_vars

\* The fault-free steps: every peer closes in order, every connect succeeds.
NextPair ==
    \/ BindOk
    \/ \E c \in Conns :
        \/ Accept(c)
        \/ PollSession(c)
        \/ ClientConnect(c)
        \/ ClientClose(c)
        \/ DestEstablish(c)
        \/ DestClose(c)
    \/ Payload

\* Two sessions at once with payload.
SpecPair == InitPair /\ [][NextPair]_vars

\* ================================================================= claims
Finished(cp) == cp.st \in {"ok", "err"}

\* The events of kind k in a log.
Events(lg, k) == {i \in 1..Len(lg) : lg[i][1] = k}

\* The session of c reached the copy phase (its connect succeeded).
Copied(c) == up[c].st # "none"

\* C1: in a session whose connect succeeded, as soon as one copy direction has
\* finished (with success or with an error) the session is complete: there is
\* no state in which a direction has finished and the session still waits.
C1_RaceNotJoin ==
    \A c \in Conns :
        (Finished(up[c]) \/ Finished(down[c]))
            => sess[c] = "done" /\ result[c] # <<"Pending">>

\* C1 witness: a session completed by upstream's end-of-stream while
\* downstream still held a byte it had read and not yet written.
C1_Witness ==
    \E c \in Conns :
        /\ sess[c] = "done" /\ up[c].st = "ok"
        /\ down[c].st = "abandoned" /\ down[c].buf # << >>

C4_CompletedHoldsNothing ==
    \A c \in Conns :
        sess[c] = "done" =>
            /\ held[c] = {} /\ ~SrcOpen(c) /\ ~DstOpen(c)
            /\ up[c].st # "run" /\ down[c].st # "run"

\* C4 witness: a session completed by downstream, upstream abandoned.
C4_Witness ==
    \E c \in Conns :
        /\ sess[c] = "done" /\ Finished(down[c]) /\ up[c].st = "abandoned"
        /\ Events(log[c], "Disconnected") # {}

\* C5: after a successful bind, the oldest pending inbound connection can
\* always be accepted, whatever the number and the state of the sessions active.
C5_AcceptNeverBlocked ==
    \A c \in Conns :
        ( /\ proc = "running" /\ listener = "listening"
          /\ sess[c] = "backlog"
          /\ \A b \in Conns : b < c => sess[b] # "backlog" )
            => ENABLED Accept(c)

\* C5 witness: two accepted sessions are active at once, the earlier one in
\* its copy phase.
C5_Witness ==
    \E c, d \in Conns :
        c < d /\ sess[c] = "copying" /\ sess[d] \in {"connecting", "copying"}

\* What the program holds of session d.
SessionState(d) ==
    <<sess[d], addr[d], held[d], opts[d], up[d], down[d], result[d], log[d],
      src[d], dst[d]>>

\* C6: a step in which a session ends with an error (connect failure or copy
\* error) adds that session's "disconnected with error" line and nothing else:
\* the listener keeps listening, the process keeps running, no process-level
\* line is logged, and every other session is left as it was.
C6_ErrorContained ==
    [][\A c \in Conns :
          (sess[c] \in {"connecting", "copying"} /\ result'[c][1] = "Err") =>
              /\ sess'[c] = "done"
              /\ log'[c][Len(log'[c])] = ThenLog(result'[c], addr[c])
              /\ listener' = "listening" /\ proc' = "running"
              /\ syslog' = syslog
              /\ \A d \in Conns \ {c} : SessionState(d)' = SessionState(d)
     ]_vars

\* C6 witness: a session has ended with an error while another is active and
\* the listener is listening.
C6_Witness ==
    \E c, d \in Conns :
        /\ c # d /\ sess[c] = "done" /\ result[c][1] = "Err"
        /\ sess[d] \in {"connecting", "copying"}
        /\ listener = "listening" /\ proc = "running"

\* C7 (as claimed): once the bind has succeeded nothing makes the listener
\* stop or the process end.
C7_OnlyBindIsFatal ==
    [][listener = "listening" => (listener' = "listening" /\ proc' = "running")]_vars

\* C8 (as claimed): a failed bind logs the failure, accepts nothing and ends
\* the process with a nonzero exit status.
C8_BindFailureExitsNonzero ==
    listener = "failed" =>
        /\ syslog[Len(syslog)] = <<"ShutdownWithError">>
        /\ \A c \in Conns : sess[c] = "none"
        /\ proc = "exited" /\ exitStatus # 0

\* A poll of session c would change something: a copy moves bytes, sees
\* end-of-stream, or finishes.
PollProgress(c) ==
    LET sel == SelectPoll(up[c], down[c], src[c], dst[c]) IN
    \/ sel.winner # "none"
    \/ <<sel.up, sel.down, sel.src, sel.dst>> # <<up[c], down[c], src[c], dst[c]>>

\* C9 (as claimed): in the copy phase, once the client has closed the inbound
\* connection the session ends and the outbound connection is closed whatever
\* the destination does, also when it neither sends nor reads.  With a silent
\* destination only polls of the session change its state, so the claim needs
\* every such state to be one where the poll makes progress towards the end.
C9_ClientCloseEndsSession ==
    \A c \in Conns :
        (sess[c] = "copying" /\ src[c].fin) => PollProgress(c)

IsPrefix(p, q) == Len(p) <= Len(q) /\ p = SubSeq(q, 1, Len(p))

\* The first n bytes the client of c sent, and the destination sent on c.
ClientStream(c, n) == [i \in 1..n |-> ClientByte(c, i)]
DestStream(c, n) == [i \in 1..n |-> DestByte(c, i)]

\* C10: at every moment what has been written to the destination is a prefix
\* of what the client sent, and what has been written to the client is a
\* prefix of what the destination sent.
C10_BytesArePrefix ==
    \A c \in Conns :
        /\ IsPrefix(dst[c].wr, ClientStream(c, csent[c]))
        /\ IsPrefix(src[c].wr, DestStream(c, dsent[c]))

\* C10 witness: two bytes of one stream were forwarded, by a write that took
\* only part of the copy buffer and a later one that took the rest.
C10_Witness ==
    \E c \in Conns :
        \/ Len(dst[c].wr) >= 2 /\ BufSize > SockBuf
        \/ Len(src[c].wr) >= 2 /\ BufSize > SockBuf

\* C11 (as claimed): with the connect succeeded and no I/O error, every byte
\* a peer sent is delivered to the other peer, also when one peer closed its
\* sending side before the other's bytes were relayed.  Nothing is relayed
\* after the session has ended, so a session that ended cleanly must have
\* delivered everything both peers sent.
C11_AllBytesDelivered ==
    \A c \in Conns :
        (sess[c] = "done" /\ result[c] = <<"Ok">>) =>
            /\ dst[c].wr = ClientStream(c, csent[c])
            /\ src[c].wr = DestStream(c, dsent[c])

\* C11 (amended): when a session ends cleanly, every byte sent by the peer
\* whose end-of-stream ended it has been delivered to the other peer; bytes of
\* the other direction are delivered only as far as they were relayed before.
C11_WinnerDelivered ==
    \A c \in Conns :
        /\ up[c].st = "ok" => dst[c].wr = ClientStream(c, csent[c])
        /\ down[c].st = "ok" => src[c].wr = DestStream(c, dsent[c])

\* C11 witness: upstream delivered the client's byte and ended the session
\* cleanly while a byte of the destination was never relayed.
C11_Witness ==
    \E c \in Conns :
        /\ sess[c] = "done" /\ up[c].st = "ok" /\ csent[c] > 0
        /\ dst[c].wr = ClientStream(c, csent[c])
        /\ Len(src[c].wr) < dsent[c]

\* C12: with two sessions at once, each session relays between its own
\* inbound connection and an outbound connection of its own: every byte
\* written to a session's outbound connection was sent by that session's
\* client, every byte written to its inbound connection was sent by the
\* destination on that session's outbound connection, and what each
\* connection received is a prefix of what its own peer sent.
C12_NoCrossTalk ==
    /\ \A c, d \in Conns :
        (c # d /\ held[c] # {} /\ held[d] # {}) => Outbound(c) # Outbound(d)
    /\ \A c \in Conns :
        /\ IsPrefix(dst[c].wr, ClientStream(c, csent[c]))
        /\ IsPrefix(src[c].wr, DestStream(c, dsent[c]))

\* C12 witness: two sessions are in their copy phase together and each has
\* forwarded a byte of its own client.
C12_Witness ==
    /\ \A c \in {1, 2} : sess[c] = "copying" /\ Len(dst[c].wr) > 0

\* A log without the error! lines of sockopt().
NoErrors(lg) == SelectSeq(lg, LAMBDA e : e[1] # "Error")

\* C13: a failing setsockopt (keepalive or nodelay, inbound or outbound) only
\* adds error lines to the log.  Whatever fails, the accept step requests both
\* options on the inbound stream and starts the connect, and the step that
\* follows the connect requests both options on the outbound stream and
\* leaves the copies, the sockets, the session's phase, its result and its
\* other log lines exactly as the first poll of select determines them.
C13_SockoptFailureIgnored ==
    [][\A c \in Conns :
        /\ (sess[c] = "backlog" /\ sess'[c] # "backlog") =>
              /\ sess'[c] = "connecting" /\ dconn'[c] = "syn"
              /\ opts'[c].src = SockoptRequest(cfg)
              /\ result'[c] = <<"Pending">>
              /\ NoErrors(log'[c]) = << <<"Connected", addr'[c]>> >>
        /\ (sess[c] = "connecting" /\ dconn[c] = "estab"
              /\ sess'[c] \in {"copying", "done"}) =>
              LET sel == SelectPoll(NewCopy, NewCopy, src[c], dst[Outbound(c)])
                  won == sel.winner # "none"
              IN  /\ opts'[c].dst = SockoptRequest(cfg)
                  /\ sess'[c] = IF won THEN "done" ELSE "copying"
                  /\ result'[c] = IF won THEN FwdResult(sel) ELSE <<"Pending">>
                  /\ src'[c] = sel.src /\ dst'[Outbound(c)] = sel.dst
                  /\ up'[c] = IF won THEN Abandon(sel.up) ELSE sel.up
                  /\ down'[c] = IF won THEN Abandon(sel.down) ELSE sel.down
                  /\ NoErrors(log'[c]) =
                        NoErrors(log[c]) \o
                        (IF won THEN <<ThenLog(FwdResult(sel), addr[c])>> ELSE << >>)
      ]_vars

\* C13 witness: a setsockopt failed in a session, which relayed a byte to the
\* destination all the same and ended cleanly.
C13_Witness ==
    \E c \in Conns :
        /\ Events(log[c], "Error") # {}
        /\ sess[c] = "done" /\ result[c] = <<"Ok">> /\ Len(dst[c].wr) > 0

\* The connections on which session c has called sockopt() so far.
Inbound(c) == sess[c] \in {"connecting", "copying", "done", "dropped"}

\* C14: every session requests, on its inbound connection when it is accepted
\* and on its outbound connection when the connect has succeeded, keepalive
\* disabled exactly when the configured seconds are 0 and otherwise enabled
\* with that interval, and NODELAY as configured; the configuration never
\* changes, so any two sessions request the same values.
C14_OptionsFromConfig ==
    LET want == [keepalive |-> IF cfg.keepalive = 0 THEN <<"None">>
                               ELSE <<"Some", cfg.keepalive>>,
                 nodelay   |-> cfg.nodelay]
    IN  /\ cfg \in Configs
        /\ \A c \in Conns :
            /\ Inbound(c) => opts[c].src = want
            /\ (sess[c] = "copying" \/ Copied(c)) => opts[c].dst = want
        /\ \A c, d \in Conns :
            (Inbound(c) /\ Inbound(d)) => opts[c].src = opts[d].src

\* C14 witness: with keepalive 0 and nodelay set, a second session has
\* requested its options after an earlier session has ended.
C14_Witness ==
    /\ cfg.keepalive = 0 /\ cfg.nodelay
    /\ sess[1] = "done" /\ sess[2] = "copying"
    /\ opts[2].src.keepalive = <<"None">> /\ opts[2].dst.nodelay

\* A byte has been read from or written to a connection of session c.
Moved(c) ==
    \/ Len(src[c].rq) < csent[c] \/ Len(dst[c].rq) < dsent[c]
    \/ src[c].wr # << >> \/ dst[c].wr # << >>
    \/ up[c].buf # << >> \/ down[c].buf # << >>

\* C15: the steps of a session are ordered.  Once the outbound connect has
\* been attempted the options of the inbound connection have been requested;
\* a session that has started to copy has an established outbound connection
\* and has requested the options of the outbound connection, and no byte is
\* read or written before that; the two copies exist together or not at all.
C15_StepsInOrder ==
    \A c \in Conns :
        /\ dconn[c] # "none" => opts[c].src = SockoptRequest(cfg)
        /\ Copied(c) => dconn[c] = "estab" /\ opts[c].dst = SockoptRequest(cfg)
        /\ sess[c] \in {"none", "backlog", "connecting"} =>
              opts[c].dst = NoOpts /\ ~Copied(c) /\ ~Moved(c)
        /\ Moved(c) => Copied(c)
        /\ (up[c].st = "none") <=> (down[c].st = "none")

\* C15 witness: a session in its copy phase in which both directions have
\* relayed a byte.
C15_Witness ==
    \E c \in Conns :
        /\ sess[c] = "copying" /\ up[c].st = "run" /\ down[c].st = "run"
        /\ Len(dst[c].wr) > 0 /\ Len(src[c].wr) > 0

\* The session of c is over.
Ended(c) == sess[c] \in {"done", "dropped"}

\* The completion events in a log.
Completions(lg) == Events(lg, "Disconnected") \cup Events(lg, "DisconnectedWithError")

\* C16: the log of an accepted connection starts with its one Connected
\* event; a session that is over has, after it, exactly one completion event,
\* Disconnected for a success and DisconnectedWithError for an error, with
\* the same peer address; a session that is not over has none.
C16_ConnectedThenCompletion ==
    \A c \in Conns :
        /\ Inbound(c) =>
              /\ Events(log[c], "Connected") = {1}
              /\ log[c][1] = <<"Connected", addr[c]>>
        /\ (Inbound(c) /\ ~Ended(c)) => Completions(log[c]) = {}
        /\ Ended(c) =>
              /\ Completions(log[c]) = {Len(log[c])}
              /\ result[c] # <<"Pending">>
              /\ log[c][Len(log[c])] = ThenLog(result[c], addr[c])

\* C17: a session whose peer address could not be read carries the sentinel
\* and is otherwise like any other: it requested its inbound options and
\* started its connect, logged Connected with the sentinel first, and, once
\* complete, logged its completion event with the sentinel.
C17_UnknownPeer ==
    \A c \in Conns :
        Inbound(c) =>
            /\ addr[c] \in {PeerName(c), Unknown}
            /\ dconn[c] # "none" /\ opts[c].src = SockoptRequest(cfg)
            /\ log[c][1] = <<"Connected", addr[c]>>
            /\ sess[c] = "done" => log[c][Len(log[c])] = ThenLog(result[c], addr[c])

\* C17 witness: a session without a peer address relayed a byte and ended
\* cleanly, with the sentinel in both of its events.
C17_Witness ==
    \E c \in Conns :
        /\ addr[c] = Unknown /\ sess[c] = "done" /\ Len(dst[c].wr) > 0
        /\ log[c] = << <<"Connected", Unknown>>, <<"Disconnected", Unknown>> >>

\* C18: a copy that has returned Ok has read the end-of-stream of its source,
\* with nothing left to read before it, and holds no byte it has not written:
\* the bytes it wrote to its sink are, in number, the bytes it took from its
\* source.
C18_OkAfterEofAndFlush ==
    \A c \in Conns :
        /\ up[c].st = "ok" =>
              /\ up[c].rd /\ src[c].fin /\ up[c].buf = << >>
              /\ Len(dst[c].wr) = csent[c] - Len(src[c].rq)
        /\ down[c].st = "ok" =>
              /\ down[c].rd /\ dst[c].fin /\ down[c].buf = << >>
              /\ Len(src[c].wr) = dsent[c] - Len(dst[c].rq)

\* C18 witness: upstream returned Ok after relaying more than one send
\* buffer's worth of bytes, which took more than one write.
C18_Witness ==
    \E c \in Conns :
        /\ sess[c] = "done" /\ result[c] = <<"Ok">> /\ up[c].st = "ok"
        /\ Len(dst[c].wr) > SockBuf

\* C19: when a session is polled in a state in which either copy, polled on
\* its own, would finish, the session ends with upstream's outcome: Ok for its
\* end-of-stream, upstream's error otherwise, and the matching completion
\* event; downstream's outcome is never looked at.
C19_UpstreamBias ==
    [][\A c \in Conns :
        LET first == sess[c] = "connecting" /\ ConnectReady(c)
            u == IF first THEN NewCopy ELSE up[c]
            d == IF first THEN NewCopy ELSE down[c]
            a == CopyPoll(u, src[c], dst[Outbound(c)])
            b == CopyPoll(d, dst[Outbound(c)], src[c])
            res == IF a.out = "Ok" THEN <<"Ok">> ELSE <<"Err", "up">>
        IN  ( /\ first \/ sess[c] = "copying"
              /\ a.out # "NotReady" /\ b.out # "NotReady"
              /\ sess'[c] = "done" )
            => /\ result'[c] = res
               /\ log'[c][Len(log'[c])] = ThenLog(res, addr[c])
               /\ down'[c] = Abandon(d)
      ]_vars

\* C19 witness: the outbound connection had been reset, so that downstream's
\* next read fails, and the client had closed; the session ended as a clean
\* Disconnected.
C19_Witness ==
    \E c \in Conns :
        /\ sess[c] = "done" /\ result[c] = <<"Ok">> /\ up[c].st = "ok"
        /\ dst[c].err /\ down[c].st = "abandoned"
        /\ log[c][Len(log[c])] = <<"Disconnected", addr[c]>>

\* C20: once an accept has failed the listener has stopped for good: the
\* process log ends with its one ShutdownWithError event, no session is in
\* flight any more, every session dropped then holds no socket, has no result
\* and no completion event, its copies are abandoned, and no connection, not
\* even one waiting in the accept queue, can be accepted.
C20_AcceptErrorDropsSessions ==
    listener = "stopped" =>
        /\ proc = "exited"
        /\ Events(syslog, "ShutdownWithError") = {Len(syslog)}
        /\ Events(syslog, "Shutdown") = {}
        /\ \A c \in Conns :
            /\ sess[c] \notin {"connecting", "copying"}
            /\ sess[c] = "dropped" =>
                  /\ held[c] = {} /\ result[c] = <<"Pending">>
                  /\ Completions(log[c]) = {}
                  /\ up[c].st \in {"none", "abandoned"}
                  /\ down[c].st \in {"none", "abandoned"}
            /\ ~ENABLED Accept(c)

\* C20 witness: the accept error came while one session was copying and
\* another connection was waiting to be accepted.
C20_Witness ==
    /\ listener = "stopped"
    /\ sess[1] = "dropped" /\ Copied(1) /\ sess[2] = "backlog"

====
